---- MODULE Spec2Model ----
(***************************************************************************)
(* Model of green/app.py: a Flask application object with one view         *)
(* function, hello_blue, registered for the rule "/", and a __main__       *)
(* block that serves it with app.run(host='0.0.0.0', port=5000).           *)
(*                                                                         *)
(* The calls the file makes into Flask/Werkzeug (Flask(), app.route,       *)
(* app.run and the WSGI request path behind it) are modelled by their      *)
(* effect on the application object and on the process:                    *)
(*   - Flask(__name__) creates the URL map and, because static_folder      *)
(*     defaults to "static", registers the rule /static/<path:filename>    *)
(*     under the endpoint "static";                                        *)
(*   - app.route("/") registers the rule "/" for methods ("GET",); the     *)
(*     rule also gets HEAD (added to every rule that has GET) and OPTIONS  *)
(*     (automatic options);                                                *)
(*   - app.run binds (host, port) and serves forever, one thread per       *)
(*     connection (threaded=True), HTTP/1.0 (one request per connection).  *)
(* Paths are sequences of segments: <<>> is "/", <<"nope">> is "/nope".    *)
(***************************************************************************)
EXTENDS Naturals, Integers, Sequences, FiniteSets, Bags, TLC

VARIABLES
    name,        \* __name__ of the module: "__main__" when run as a script
    pc,          \* position of the process: "main", "imported", "serving", "exited"
    state,       \* lifecycle of the responder: "Stopped" or "Listening"
    url_map,     \* app.url_map: the set of registered rules
    view_functions, \* app.view_functions: endpoint -> name of the view function
    portFree,    \* environment: can (host, port) be bound?
    sock,        \* address the listening socket is bound to, <<>> when none
    bindLog,     \* every address the process tried to bind, in order
    error,       \* the error that ended startup, "" when none
    exitStatus,  \* exit status of the process, -1 while it runs
    conns,       \* in-flight connections: id -> record (one thread each)
    accepted,    \* number of connections accepted so far
    delivered    \* bag of the responses written to clients

vars == <<name, pc, state, url_map, view_functions, portFree, sock, bindLog,
          error, exitStatus, conns, accepted, delivered>>

\* ---------------------------------------------------------------- bounds
MaxRequests == 2

\* ------------------------------------------------------- request domain
Methods == {"GET", "HEAD", "POST", "PUT", "DELETE", "OPTIONS"}
Paths   == {<<>>, <<"nope">>, <<"static", "x">>}
\* What else a request carries: nothing, or a query string, a header and a body.
Extras  == {[query |-> "", headers |-> "", body |-> ""],
            [query |-> "a=1", headers |-> "X-Probe: 1", body |-> "payload"]}
Request == {[method |-> m, path |-> p, query |-> x.query,
             headers |-> x.headers, body |-> x.body] :
            m \in Methods, p \in Paths, x \in Extras}

\* ------------------------------------------------------------- app.py
\* Variant: the host argument left out, so the server binds Flask's default.
host_loopback == "127.0.0.1"

host == "0.0.0.0"
port == 5000

\* Variant: the body of the sibling "blue" service.
hello_blue_sibling == "<h1 style='color:blue'>Hello, blue!</h1>"

\* The view function of line 6-7: takes no argument, returns the literal.
hello_blue == "<h1 style='color:blue'>Hello, green!</h1>"

\* The view Flask registers for the static rule: send_static_file looks the
\* file up in the static folder; the repository ships none, so NotFound.
send_static_file(filename) == [kind |-> "exc", code |-> 404, text |-> ""]

\* Calling the view function registered under a name.
CallView(fn, args) ==
    IF fn = "hello_blue"
    THEN [kind |-> "str", code |-> 0, text |-> hello_blue]
    ELSE send_static_file(args)

\* werkzeug Rule + Flask.add_url_rule: HEAD is added when GET is allowed,
\* OPTIONS is added because provide_automatic_options is on by default.
RuleMethods(methods) ==
    methods \cup (IF "GET" \in methods THEN {"HEAD"} ELSE {}) \cup {"OPTIONS"}

add_url_rule(map, rule, endpoint, methods) ==
    map \cup {[rule |-> rule, endpoint |-> endpoint, methods |-> RuleMethods(methods)]}

\* Flask(__name__), line 3: the URL map holds the static rule.
Flask == add_url_rule({}, <<"static", "<path:filename>">>, "static", {"GET"})

\* Variant: the route registered with methods=["GET", "POST"].
route_post(map, rule) == add_url_rule(map, rule, "hello_blue", {"GET", "POST"})

\* @app.route("/"), line 5: options has no "methods", so ("GET",).
route(map, rule) == add_url_rule(map, rule, "hello_blue", {"GET"})

\* Variant: a rule matches every path it is a prefix of.
RuleMatches_prefix(r, path) ==
    LET n == Len(r.rule) IN
    IF n > 0 /\ r.rule[n] = "<path:filename>"
    THEN Len(path) >= n /\ SubSeq(path, 1, n - 1) = SubSeq(r.rule, 1, n - 1)
    ELSE Len(path) >= n /\ SubSeq(path, 1, n) = r.rule

\* Does a rule match a path?  A trailing <path:...> converter takes one or
\* more segments; every other part must be equal.
RuleMatches(r, path) ==
    LET n == Len(r.rule) IN
    IF n > 0 /\ r.rule[n] = "<path:filename>"
    THEN Len(path) >= n /\ SubSeq(path, 1, n - 1) = SubSeq(r.rule, 1, n - 1)
    ELSE path = r.rule

\* MapAdapter.match: the endpoint of the rule matching path and method;
\* 405 when rules match the path but none allows the method; 404 otherwise.
match(map, method, path) ==
    LET hits == {r \in map : RuleMatches(r, path)}
        ok   == {r \in hits : method \in r.methods}
    IN  IF ok # {} THEN [endpoint |-> (CHOOSE r \in ok : TRUE).endpoint, exc |-> 0]
        ELSE IF hits # {} THEN [endpoint |-> "", exc |-> 405]
        ELSE [endpoint |-> "", exc |-> 404]

\* Bodies of the default error pages, abbreviated to their title.
ErrorPage(code) ==
    IF code = 404 THEN "Not Found"
    ELSE IF code = 405 THEN "Method Not Allowed"
    ELSE "Internal Server Error"

\* Flask.dispatch_request + handle_user_exception: routing exceptions become
\* their own response, OPTIONS gets the automatic options response, any
\* other request calls the view function.  view names the function called.
dispatch_request(map, views, req) ==
    LET m == match(map, req.method, req.path) IN
    IF m.exc # 0
    THEN [rv |-> [kind |-> "exc", code |-> m.exc, text |-> ""], view |-> "none"]
    ELSE IF req.method = "OPTIONS"
    THEN [rv |-> [kind |-> "str", code |-> 0, text |-> ""], view |-> "none"]
    ELSE [rv |-> CallView(views[m.endpoint], req.path), view |-> views[m.endpoint]]

\* Flask.make_response: a str becomes a 200 text/html response, an
\* HTTPException becomes its error page.
make_response(rv) ==
    IF rv.kind = "str"
    THEN [status |-> 200, content_type |-> "text/html", body |-> rv.text]
    ELSE [status |-> rv.code, content_type |-> "text/html", body |-> ErrorPage(rv.code)]

\* Response.__call__ / get_app_iter: no body is written for HEAD.
WireBody(req, resp) == IF req.method = "HEAD" THEN "" ELSE resp.body

NoResponse == [status |-> 0, content_type |-> "", body |-> ""]

\* ---------------------------------------------------------------- Init
\* The state once lines 1-7 have run: app created, hello_blue registered.
Init ==
    /\ name \in {"__main__", "app"}
    /\ pc = "main"
    /\ state = "Stopped"
    /\ url_map = route(Flask, <<>>)
    /\ view_functions = [e \in {"static", "hello_blue"} |-> e]
    /\ portFree \in BOOLEAN
    /\ sock = <<>>
    /\ bindLog = <<>>
    /\ error = ""
    /\ exitStatus = -1
    /\ conns = <<>>
    /\ accepted = 0
    /\ delivered = EmptyBag

\* ------------------------------------------------------------- actions
\* Line 9 when the module was imported: app.run is not called.
Imported ==
    /\ pc = "main" /\ name # "__main__"
    /\ pc' = "imported"
    /\ UNCHANGED <<name, state, url_map, view_functions, portFree, sock, bindLog,
                   error, exitStatus, conns, accepted, delivered>>

\* Lines 9-10, address available: app.run binds and starts serving.
RunBound ==
    /\ pc = "main" /\ name = "__main__" /\ portFree
    /\ bindLog' = Append(bindLog, <<host, port>>)
    /\ sock' = <<host, port>>
    /\ state' = "Listening"
    /\ pc' = "serving"
    /\ UNCHANGED <<name, url_map, view_functions, portFree, error, exitStatus,
                   conns, accepted, delivered>>

\* Variant: on a bind failure the server falls back to the next port.
RunBindError_fallback ==
    /\ pc = "main" /\ name = "__main__" /\ ~portFree
    /\ bindLog' = bindLog \o << <<host, port>>, <<host, port + 1>> >>
    /\ error' = "BindError"
    /\ sock' = <<host, port + 1>>
    /\ state' = "Listening"
    /\ pc' = "serving"
    /\ UNCHANGED <<name, url_map, view_functions, portFree, exitStatus,
                   conns, accepted, delivered>>

\* Lines 9-10, address unavailable: bind raises, the process exits with 1.
RunBindError ==
    /\ pc = "main" /\ name = "__main__" /\ ~portFree
    /\ bindLog' = Append(bindLog, <<host, port>>)
    /\ error' = "BindError"
    /\ exitStatus' = 1
    /\ pc' = "exited"
    /\ UNCHANGED <<name, state, url_map, view_functions, portFree, sock,
                   conns, accepted, delivered>>

\* app.run(host, port), line 10.
run == RunBound \/ RunBindError

\* serve_forever accepts a connection and hands it to a new thread.
Accept(req) ==
    /\ pc = "serving" /\ sock # <<>>
    /\ accepted < MaxRequests
    /\ accepted' = accepted + 1
    /\ conns' = [c \in DOMAIN conns \cup {accepted + 1} |->
                   IF c \in DOMAIN conns THEN conns[c]
                   ELSE [req |-> req, laddr |-> sock, stage |-> "accepted",
                         resp |-> NoResponse, view |-> "none"]]
    /\ UNCHANGED <<name, pc, state, url_map, view_functions, portFree, sock,
                   bindLog, error, exitStatus, delivered>>

\* Variant: the view greets differently from the second visit on.
Handle_counting(c) ==
    /\ pc = "serving"
    /\ c \in DOMAIN conns /\ conns[c].stage = "accepted"
    /\ LET d == dispatch_request(url_map, view_functions, conns[c].req)
           r == make_response(d.rv)
       IN  conns' = [conns EXCEPT ![c].stage = "handled",
                                  ![c].resp = IF d.view = "hello_blue" /\ accepted > 1
                                              THEN [r EXCEPT !.body = "<h1>Hello again!</h1>"]
                                              ELSE r,
                                  ![c].view = d.view]
    /\ UNCHANGED <<name, pc, state, url_map, view_functions, portFree, sock,
                   bindLog, error, exitStatus, accepted, delivered>>

\* Variant: requests are handled one at a time, in the order accepted.
Handle_serial(c) ==
    /\ pc = "serving"
    /\ c \in DOMAIN conns /\ conns[c].stage = "accepted"
    /\ \A d \in DOMAIN conns : d >= c
    /\ LET d == dispatch_request(url_map, view_functions, conns[c].req) IN
       conns' = [conns EXCEPT ![c].stage = "handled",
                              ![c].resp = make_response(d.rv),
                              ![c].view = d.view]
    /\ UNCHANGED <<name, pc, state, url_map, view_functions, portFree, sock,
                   bindLog, error, exitStatus, accepted, delivered>>

\* Variant: handling a request registers its path as a further rule.
Handle_registering(c) ==
    /\ pc = "serving"
    /\ c \in DOMAIN conns /\ conns[c].stage = "accepted"
    /\ LET d == dispatch_request(url_map, view_functions, conns[c].req) IN
       conns' = [conns EXCEPT ![c].stage = "handled",
                              ![c].resp = make_response(d.rv),
                              ![c].view = d.view]
    /\ url_map' = add_url_rule(url_map, conns[c].req.path, "hello_blue", {"GET"})
    /\ UNCHANGED <<name, pc, state, view_functions, portFree, sock,
                   bindLog, error, exitStatus, accepted, delivered>>

\* The connection's thread runs wsgi_app: match, dispatch, make_response.
Handle(c) ==
    /\ pc = "serving"
    /\ c \in DOMAIN conns /\ conns[c].stage = "accepted"
    /\ LET d == dispatch_request(url_map, view_functions, conns[c].req) IN
       conns' = [conns EXCEPT ![c].stage = "handled",
                              ![c].resp = make_response(d.rv),
                              ![c].view = d.view]
    /\ UNCHANGED <<name, pc, state, url_map, view_functions, portFree, sock,
                   bindLog, error, exitStatus, accepted, delivered>>

\* Variant: the connection record is kept after the response is written.
Send_leak(c) ==
    /\ pc = "serving"
    /\ c \in DOMAIN conns /\ conns[c].stage = "handled"
    /\ delivered' = delivered (+) SetToBag({[req |-> conns[c].req,
                                             status |-> conns[c].resp.status,
                                             body |-> WireBody(conns[c].req, conns[c].resp),
                                             view |-> conns[c].view]})
    /\ conns' = [conns EXCEPT ![c].stage = "closed"]
    /\ UNCHANGED <<name, pc, state, url_map, view_functions, portFree, sock,
                   bindLog, error, exitStatus, accepted>>

\* The thread writes the response and closes the connection.
Send(c) ==
    /\ pc = "serving"
    /\ c \in DOMAIN conns /\ conns[c].stage = "handled"
    /\ delivered' = delivered (+) SetToBag({[req |-> conns[c].req,
                                             status |-> conns[c].resp.status,
                                             body |-> WireBody(conns[c].req, conns[c].resp),
                                             view |-> conns[c].view]})
    /\ conns' = [d \in DOMAIN conns \ {c} |-> conns[d]]
    /\ UNCHANGED <<name, pc, state, url_map, view_functions, portFree, sock,
                   bindLog, error, exitStatus, accepted>>

\* Variant: a graceful stop that drains handled requests and goes back to Stopped.
Terminate_graceful(status) ==
    /\ pc = "serving"
    /\ pc' = "exited"
    /\ exitStatus' = status
    /\ sock' = <<>>
    /\ state' = "Stopped"
    /\ delivered' = delivered (+) SetToBag({[req |-> conns[c].req,
                                             status |-> conns[c].resp.status,
                                             body |-> WireBody(conns[c].req, conns[c].resp),
                                             view |-> conns[c].view] :
                                            c \in {d \in DOMAIN conns : conns[d].stage = "handled"}})
    /\ conns' = <<>>
    /\ UNCHANGED <<name, url_map, view_functions, portFree, bindLog,
                   error, accepted>>

\* The process is terminated while serving (Ctrl-C ends with 0, SIGKILL with
\* 137).  Connection threads are daemon threads: they die with the process.
Terminate(status) ==
    /\ pc = "serving"
    /\ pc' = "exited"
    /\ exitStatus' = status
    /\ sock' = <<>>
    /\ conns' = <<>>
    /\ UNCHANGED <<name, state, url_map, view_functions, portFree, bindLog,
                   error, accepted, delivered>>

Next ==
    \/ Imported
    \/ run
    \/ \E req \in Request : Accept(req)
    \/ \E c \in 1..MaxRequests : Handle(c)
    \/ \E c \in 1..MaxRequests : Send(c)
    \/ \E status \in {0, 137} : Terminate(status)

Spec == Init /\ [][Next]_vars

\* ---------------------------------------------------------- vocabulary
\* The response body the specification fixes for GET /, written out.
FixedBody == "<h1 style='color:blue'>Hello, green!</h1>"

Seen == BagToSet(delivered)
IsRoot(req) == req.path = <<>>
IsGetRoot(req) == req.method = "GET" /\ IsRoot(req)
Handled == {c \in DOMAIN conns : conns[c].stage = "handled"}

\* ------------------------------------------------------------------ C1
\* C1: while the server is Listening, every GET request to "/" is answered
\* with status 200 and exactly the fixed body, whatever its query string,
\* headers and body; hello_blue is the view that ran and no error response
\* is produced for this route.
C1_FixedResponse ==
    /\ \A e \in Seen : IsGetRoot(e.req) =>
          /\ e.status = 200 /\ e.body = FixedBody /\ e.view = "hello_blue"
          /\ state = "Listening"
    /\ \A c \in Handled : IsGetRoot(conns[c].req) =>
          /\ conns[c].resp.status = 200 /\ conns[c].resp.body = FixedBody
          /\ conns[c].view = "hello_blue"

\* A GET / carrying a query string, a header and a body was answered.
C1_Witness ==
    \E e \in Seen : IsGetRoot(e.req) /\ e.req.query = "a=1"
                    /\ e.req.body = "payload" /\ e.status = 200

\* ------------------------------------------------------------------ C2
\* C2 as stated: every request to "/" whose method is not GET (HEAD and
\* OPTIONS included) leaves hello_blue uninvoked and is answered 405.
C2_AsStated ==
    \A e \in Seen : IsRoot(e.req) /\ e.req.method # "GET" =>
        e.view = "none" /\ e.status = 405

\* C2 amended: for "/" a method other than GET, HEAD and OPTIONS (POST, PUT,
\* DELETE) never invokes hello_blue and is answered 405; HEAD invokes
\* hello_blue and is answered 200 with the body left out; OPTIONS is answered
\* by the automatic options response, 200, without invoking hello_blue; no
\* request other than GET receives the fixed body.
C2_MethodNotAllowed ==
    \A e \in Seen : IsRoot(e.req) /\ e.req.method # "GET" =>
        /\ e.body # FixedBody
        /\ e.req.method \notin {"HEAD", "OPTIONS"} => e.view = "none" /\ e.status = 405
        /\ e.req.method = "HEAD" => e.view = "hello_blue" /\ e.status = 200 /\ e.body = ""
        /\ e.req.method = "OPTIONS" => e.view = "none" /\ e.status = 200

\* A POST / was answered 405 and a HEAD / was answered 200.
C2_Witness ==
    /\ \E e \in Seen : IsRoot(e.req) /\ e.req.method = "POST" /\ e.status = 405
    /\ \E e \in Seen : IsRoot(e.req) /\ e.req.method = "HEAD" /\ e.status = 200

\* ------------------------------------------------------------------ C3
\* C3 as stated: every request whose path is not "/", whatever its method,
\* leaves hello_blue uninvoked, is answered with a 4xx status and never
\* receives the fixed body.
C3_AsStated ==
    \A e \in Seen : ~IsRoot(e.req) =>
        /\ e.view # "hello_blue" /\ e.body # FixedBody
        /\ e.status >= 400 /\ e.status <= 499

\* C3 amended: for every request whose path is not "/", whatever its method,
\* hello_blue is not invoked and the fixed body is not returned; a path that
\* matches no rule (/nope) is answered 404 for every method; a path under the
\* built-in /static/ rule is answered 404 for GET and HEAD (no such file),
\* 200 for OPTIONS and 405 for every other method.
C3_NotFound ==
    \A e \in Seen : ~IsRoot(e.req) =>
        /\ e.view # "hello_blue" /\ e.body # FixedBody
        /\ e.req.path[1] # "static" => e.status = 404 /\ e.view = "none"
        /\ e.req.path[1] = "static" =>
              e.status = (IF e.req.method \in {"GET", "HEAD"} THEN 404
                          ELSE IF e.req.method = "OPTIONS" THEN 200 ELSE 405)

\* GET /nope was answered 404 and OPTIONS /static/x was answered 200.
C3_Witness ==
    /\ \E e \in Seen : e.req.path = <<"nope">> /\ e.req.method = "GET" /\ e.status = 404
    /\ \E e \in Seen : e.req.path = <<"static", "x">> /\ e.req.method = "OPTIONS"

\* ------------------------------------------------------------------ C4
\* C4: start on an available (host, port) takes the responder from Stopped
\* to Listening, bound to exactly 0.0.0.0:5000, and every connection is
\* accepted on that address; start on an unavailable pair ends in BindError
\* and Listening is never reached.
C4_Startup ==
    /\ [](/\ error = "BindError" => state = "Stopped"
          /\ pc = "serving" => state = "Listening" /\ sock = <<"0.0.0.0", 5000>>
          /\ \A c \in DOMAIN conns : conns[c].laddr = <<"0.0.0.0", 5000>>)
    /\ [][pc = "main" /\ pc' \notin {"main", "imported"} =>
            /\ state = "Stopped"
            /\ IF portFree
               THEN state' = "Listening" /\ pc' = "serving" /\ error' = ""
               ELSE state' = "Stopped" /\ error' = "BindError" /\ sock' = <<>>]_vars

\* The server is Listening and has accepted a connection.
C4_Witness == state = "Listening" /\ DOMAIN conns # {} /\ portFree

\* ------------------------------------------------------------------ C5
\* C5: after BindError the process has made exactly one bind attempt, on
\* 0.0.0.0:5000, holds no socket, has accepted and served nothing, and has
\* exited with a non-zero status.
C5_BindFatal ==
    error = "BindError" =>
        /\ pc = "exited" /\ exitStatus > 0
        /\ bindLog = << <<"0.0.0.0", 5000>> >>
        /\ sock = <<>> /\ accepted = 0 /\ DOMAIN conns = {} /\ delivered = EmptyBag

\* Startup has failed on an address in use.
C5_Witness == error = "BindError" /\ ~portFree /\ Len(bindLog) = 1

\* ------------------------------------------------------------------ C6
\* C6: all responses to one and the same GET / request are identical in
\* status and body, however many requests were answered before.
C6_Idempotent ==
    \A e1, e2 \in Seen :
        IsGetRoot(e1.req) /\ e1.req = e2.req =>
            e1.status = e2.status /\ e1.body = e2.body

\* The same GET / was answered twice.
C6_Witness ==
    \E e \in Seen : IsGetRoot(e.req) /\ CopiesIn(e, delivered) >= 2

\* ------------------------------------------------------------------ C7
\* C7: with several GET / requests in flight, under every interleaving each
\* one gets status 200 and the fixed body; a step of one connection leaves
\* every other connection as it was, and no connection's next step is ever
\* disabled by another connection.
C7_Concurrent ==
    /\ [](\A c \in DOMAIN conns :
            /\ conns[c].stage = "accepted" => ENABLED Handle(c)
            /\ conns[c].stage = "handled" => ENABLED Send(c)
            /\ conns[c].stage = "handled" /\ IsGetRoot(conns[c].req) =>
                 conns[c].resp.status = 200 /\ conns[c].resp.body = FixedBody)
    /\ [][\A c \in DOMAIN conns \cap DOMAIN conns' :
            conns'[c] # conns[c] =>
              \A d \in (DOMAIN conns \cap DOMAIN conns') \ {c} : conns'[d] = conns[d]]_vars

\* Two GET / are in flight and the later one was handled first.
C7_Witness ==
    \E c, d \in DOMAIN conns :
        /\ c < d /\ IsGetRoot(conns[c].req) /\ IsGetRoot(conns[d].req)
        /\ conns[c].stage = "accepted" /\ conns[d].stage = "handled"

\* ------------------------------------------------------------------ C8
Routes == UNION {{<<m, r.rule>> : m \in r.methods} : r \in url_map}
RootGetRules == {r \in url_map : RuleMatches(r, <<>>) /\ "GET" \in r.methods}

\* C8 as stated: in every reachable state exactly one route exists and it
\* maps ("/", GET) to hello_blue.
C8_AsStated ==
    /\ Cardinality(url_map) = 1
    /\ \A r \in url_map : r.rule = <<>> /\ "GET" \in r.methods
                          /\ view_functions[r.endpoint] = "hello_blue"

\* C8 amended: the route table is fixed at process startup and never changes;
\* in every reachable state exactly one rule answers ("/", GET) and its
\* handler is hello_blue; the table is not a single entry: the same rule also
\* serves HEAD and OPTIONS and the framework's static rule is registered next
\* to it; no operation adds, removes or replaces a registration.
C8_RouteTable ==
    /\ [](/\ Cardinality(RootGetRules) = 1
          /\ \A r \in RootGetRules : view_functions[r.endpoint] = "hello_blue"
          /\ Routes = {<<m, <<>> >> : m \in {"GET", "HEAD", "OPTIONS"}}
                      \cup {<<m, <<"static", "<path:filename>">> >> :
                              m \in {"GET", "HEAD", "OPTIONS"}})
    /\ [][url_map' = url_map /\ view_functions' = view_functions]_vars

\* Requests were served and startup failure is not the case: the table was in use.
C8_Witness ==
    /\ BagCardinality(delivered) >= 2 /\ pc = "exited"
    /\ Cardinality(url_map) = 2

\* ------------------------------------------------------------------ C9
\* C9: the lifecycle is Stopped or Listening; requests are accepted and
\* answered only while Listening; app.run does not return, serving ends only
\* with the process; Listening is never left for Stopped, and termination
\* delivers nothing more (no drain).
C9_Lifecycle ==
    /\ [](/\ state \in {"Stopped", "Listening"}
          /\ (DOMAIN conns # {} \/ delivered # EmptyBag) => state = "Listening")
    /\ [][/\ state = "Listening" => state' = "Listening"
          /\ (delivered' # delivered \/ accepted' # accepted) =>
                state = "Listening" /\ pc = "serving" /\ pc' = "serving"
          /\ pc = "serving" /\ pc' # "serving" =>
                pc' = "exited" /\ delivered' = delivered /\ DOMAIN conns' = {}]_vars

\* The process was terminated with a request still in flight.
C9_Witness ==
    /\ pc = "exited" /\ state = "Listening"
    /\ accepted > BagCardinality(delivered)

\* ----------------------------------------------------------------- C10
\* C10: handling a request changes nothing but that connection's own record;
\* sending the response removes the record; while serving, the records that
\* exist are exactly those of requests not yet answered, and the listening
\* socket stays bound.
C10_NoSideEffect ==
    /\ [](pc = "serving" =>
            /\ Cardinality(DOMAIN conns) + BagCardinality(delivered) = accepted
            /\ sock = <<"0.0.0.0", 5000>>)
    /\ [][\A c \in DOMAIN conns :
            (c \in DOMAIN conns' /\ conns[c].stage = "accepted"
                                 /\ conns'[c].stage = "handled") =>
              /\ UNCHANGED <<name, pc, state, url_map, view_functions, portFree,
                             sock, bindLog, error, exitStatus, accepted, delivered>>
              /\ conns'[c].req = conns[c].req /\ conns'[c].laddr = conns[c].laddr]_vars

\* Every accepted request was answered and only the socket is left.
C10_Witness ==
    /\ pc = "serving" /\ DOMAIN conns = {} /\ sock # <<>>
    /\ BagCardinality(delivered) = accepted /\ accepted >= 1

====
